---- MODULE Spec2Model ----
(***************************************************************************)
(* Port arbitration and process lifecycle of the NEAR sandbox wrapper:     *)
(* acquireOrLockPort / getPorts / spawnSandbox / waitUntilReady            *)
(* (src/unnamed/part_000, the module imported as ./sandboxUtils) and       *)
(* Sandbox.start / Sandbox.startWithPatch / Sandbox.tearDown               *)
(* (src/src/server/Sandbox.ts).                                            *)
(*                                                                         *)
(* Every action is one run-to-completion step of the Node event loop: the  *)
(* code between two awaits, together with the promise continuations that   *)
(* run in the same microtask drain.                                        *)
(***************************************************************************)
EXTENDS Integers, Sequences, FiniteSets, TLC

\* Bounds of the model.
NumSessions == 2
NumPorts == 4
\* The NEAR_RPC_TIMEOUT_SECS setting the sessions run under (a numeric value).
EnvTimeoutSecs == 1
\* The tearDown calls made on one session, at most.
MaxTearDowns == 2

\* Program constants.
MAX_ATTEMPTS == 10

Sessions == 1..NumSessions
Ports == 1..NumPorts

\* bound[p]: who has a listening socket on 127.0.0.1:p.
\*   0 = nobody, s > 0 = the probe server of session s, -s = the node of s.
\* lockedBy[p]: who holds the proper-lockfile lock of near-sandbox-port-p.lock.
VARIABLES
    pc,        \* position of each caller
    which,     \* "rpc" | "net" (inside getPorts) | "call" (a bare acquireOrLockPort)
    netReq,    \* getPorts: providedNetPort, until the second call takes it (0 = not given)
    want,      \* the argument of the acquireOrLockPort call in progress (0 = none)
    cur,       \* the port the probe reported
    att,       \* acquireUnusedPort: loop index i
    errors,    \* acquireUnusedPort: errors[]
    lease,     \* the leases (ports whose lock paths the caller was handed)
    err,       \* the error the call rejected with
    bound,
    lockedBy,
    child,     \* the node process: "none" | "running" | "exited" (exit event emitted)
    killed,    \* kill() delivered the signal
    polls,     \* waitUntilReady: loop index i
    cleanup,   \* tearDown's argument
    unl,       \* tearDown: the two unlock promises
    tdErrors,  \* tearDown: errors[]
    homeDir,   \* the working directory exists on disk
    rmRes,     \* tearDown: what rm did
    tdCalls,   \* the tearDown calls made on the session so far
    unlReason, \* tearDown: result.reason of each rejected unlock promise
    env        \* process.env["NEAR_RPC_TIMEOUT_SECS"]: unset, or a string

vars == <<pc, which, netReq, want, cur, att, errors, lease, err, bound, lockedBy,
          child, killed, polls, cleanup, unl, tdErrors, homeDir, rmRes, tdCalls,
          unlReason, env>>

acqVars == <<which, netReq, want, cur, att, errors, lease>>
procVars == <<child, killed, polls, env>>
tdVars == <<cleanup, unl, tdErrors, homeDir, rmRes, tdCalls, unlReason>>

NoError == [kind |-> "none", cause |-> <<>>]

\* new TypedError(message, kind, cause)
TypedError(kind, cause) == [kind |-> kind, cause |-> cause]

----------------------------------------------------------------------------
\* Strings are sequences of one-character strings. A JavaScript number is
\* NaN or an integer.
DigitChars == <<"0", "1", "2", "3", "4", "5", "6", "7", "8", "9">>

IsDigit(c) == \E d \in 1..10 : DigitChars[d] = c

DigitVal(c) == (CHOOSE d \in 1..10 : DigitChars[d] = c) - 1

NaN == [nan |-> TRUE, n |-> 0]

Num(n) == [nan |-> FALSE, n |-> n]

RECURSIVE StripLeft(_)
\* parseInt: leading white space is ignored.
StripLeft(str) ==
    IF str # <<>> /\ Head(str) = " " THEN StripLeft(Tail(str)) ELSE str

RECURSIVE DigitsValue(_, _)
\* parseInt: the value of the longest prefix of decimal digits.
DigitsValue(str, acc) ==
    IF str = <<>> \/ ~IsDigit(Head(str))
      THEN acc
      ELSE DigitsValue(Tail(str), acc * 10 + DigitVal(Head(str)))

\* parseInt(str), radix 10: white space, an optional sign, then digits up to
\* the first character that is none; NaN when there is no digit.
parseInt(str) ==
    LET t == StripLeft(str)
        signed == t # <<>> /\ Head(t) \in {"-", "+"}
        u == IF signed THEN Tail(t) ELSE t
    IN IF u = <<>> \/ ~IsDigit(Head(u))
         THEN NaN
         ELSE Num((IF signed /\ Head(t) = "-" THEN -1 ELSE 1) * DigitsValue(u, 0))

\* x * k and i < x on JavaScript numbers: NaN * k is NaN, i < NaN is false.
Times(x, k) == IF x.nan THEN NaN ELSE Num(x.n * k)

Less(i, x) == ~x.nan /\ i < x.n

RECURSIVE ToDigits(_)
\* The decimal string of a natural number.
ToDigits(n) ==
    IF n < 10 THEN <<DigitChars[n + 1]>>
    ELSE ToDigits(n \div 10) \o <<DigitChars[(n % 10) + 1]>>

\* The values of process.env["NEAR_RPC_TIMEOUT_SECS"].
Unset == [set |-> FALSE, val |-> <<>>]

EnvString(str) == [set |-> TRUE, val |-> str]

\* unset, "", "x", " 1", "1", "2", "0", "1s", "-1"
EnvValues ==
    {Unset} \cup {EnvString(str) : str \in
        {<<>>, <<"x">>, <<" ", "1">>, <<"1">>, <<"2">>, <<"0">>, <<"1", "s">>,
         <<"-", "1">>}}

\* process.env["NEAR_RPC_TIMEOUT_SECS"] || '10': undefined and the empty
\* string are falsy.
EnvOrDefault == IF env.set /\ env.val # <<>> THEN env.val ELSE <<"1", "0">>

timeoutSecs == parseInt(EnvOrDefault)

InitProgram ==
    /\ pc = [s \in Sessions |-> "idle"]
    /\ which = [s \in Sessions |-> "rpc"]
    /\ netReq = [s \in Sessions |-> 0]
    /\ want = [s \in Sessions |-> 0]
    /\ cur = [s \in Sessions |-> 0]
    /\ att = [s \in Sessions |-> 0]
    /\ errors = [s \in Sessions |-> <<>>]
    /\ lease = [s \in Sessions |-> [rpc |-> 0, net |-> 0]]
    /\ err = [s \in Sessions |-> NoError]
    /\ bound = [p \in Ports |-> 0]
    /\ lockedBy = [p \in Ports |-> 0]
    /\ child = [s \in Sessions |-> "none"]
    /\ killed = [s \in Sessions |-> FALSE]
    /\ polls = [s \in Sessions |-> 0]
    /\ cleanup = [s \in Sessions |-> FALSE]
    /\ unl = [s \in Sessions |-> [rpc |-> "none", net |-> "none"]]
    /\ tdErrors = [s \in Sessions |-> <<>>]
    /\ homeDir = [s \in Sessions |-> FALSE]
    /\ rmRes = [s \in Sessions |-> "none"]
    /\ tdCalls = [s \in Sessions |-> 0]
    /\ unlReason = [s \in Sessions |-> [rpc |-> "none", net |-> "none"]]

\* The sessions run under a numeric setting.
Init == InitProgram /\ env = EnvString(ToDigits(EnvTimeoutSecs))

\* The readiness wait under any value of the setting.
InitReady == InitProgram /\ env \in EnvValues

----------------------------------------------------------------------------
\* Sandbox.start / Sandbox.startWithPatch up to the first await of getPorts:
\* the working directory is there (created by initConfigsWithVersion, or the
\* patch directory handed in) and acquireOrLockPort(config.rpcPort) begins.
Start(s, rpc, net) ==
    /\ pc[s] = "idle"
    /\ pc' = [pc EXCEPT ![s] = "probe"]
    /\ which' = [which EXCEPT ![s] = "rpc"]
    /\ netReq' = [netReq EXCEPT ![s] = net]
    /\ want' = [want EXCEPT ![s] = rpc]
    /\ att' = [att EXCEPT ![s] = 0]
    /\ errors' = [errors EXCEPT ![s] = <<>>]
    /\ homeDir' = [homeDir EXCEPT ![s] = TRUE]
    /\ UNCHANGED <<cur, lease, err, bound, lockedBy, procVars, cleanup, unl,
                   tdErrors, rmRes, tdCalls, unlReason>>

\* A bare acquireOrLockPort(port) call (the scenario of two concurrent
\* requests followed by a third after release).
CallAcquire(s, port) ==
    /\ pc[s] \in {"idle", "released", "callFailed"}
    /\ pc' = [pc EXCEPT ![s] = "probe"]
    /\ which' = [which EXCEPT ![s] = "call"]
    /\ want' = [want EXCEPT ![s] = port]
    /\ att' = [att EXCEPT ![s] = 0]
    /\ errors' = [errors EXCEPT ![s] = <<>>]
    /\ err' = [err EXCEPT ![s] = NoError]
    /\ lease' = [lease EXCEPT ![s] = [rpc |-> 0, net |-> 0]]
    /\ UNCHANGED <<netReq, cur, bound, lockedBy, procVars, tdVars>>

\* The rejection of an acquireOrLockPort call reaches its caller: a bare call
\* fails, and inside getPorts / start it propagates (nothing catches it).
Rejected(s) == IF which[s] = "call" THEN "callFailed" ELSE "startFailed"

AttemptFailed_LastOnly(s, msg) ==
    LET errs == <<msg>> IN
    /\ IF att[s] + 1 < MAX_ATTEMPTS
         THEN /\ pc' = [pc EXCEPT ![s] = "probe"]
              /\ errors' = [errors EXCEPT ![s] = errs]
              /\ att' = [att EXCEPT ![s] = att[s] + 1]
              /\ err' = err
         ELSE /\ pc' = [pc EXCEPT ![s] = Rejected(s)]
              /\ errors' = [errors EXCEPT ![s] = <<>>]
              /\ att' = [att EXCEPT ![s] = 0]
              /\ err' = [err EXCEPT ![s] =
                    TypedError("PortAcquisitionFailed",
                               [i \in 1..Len(errs) |-> <<i, errs[i]>>])]

\* acquireUnusedPort's catch block and loop test: the message is pushed, and
\* after MAX_ATTEMPTS failures the aggregate is thrown.
AttemptFailed(s, msg) ==
    LET errs == Append(errors[s], msg) IN
    /\ IF att[s] + 1 < MAX_ATTEMPTS
         THEN /\ pc' = [pc EXCEPT ![s] = "probe"]
              /\ errors' = [errors EXCEPT ![s] = errs]
              /\ att' = [att EXCEPT ![s] = att[s] + 1]
              /\ err' = err
         ELSE /\ pc' = [pc EXCEPT ![s] = Rejected(s)]
              /\ errors' = [errors EXCEPT ![s] = <<>>]
              /\ att' = [att EXCEPT ![s] = 0]
              /\ err' = [err EXCEPT ![s] =
                    TypedError("PortAcquisitionFailed",
                               [i \in 1..Len(errs) |-> <<i, errs[i]>>])]

\* tryAcquireSpecificPort has no try around resolveAvailablePort: the net
\* error of the probe server rejects the call as it is (no kind).
SpecificProbeFailed(s) ==
    /\ pc' = [pc EXCEPT ![s] = Rejected(s)]
    /\ err' = [err EXCEPT ![s] = TypedError("BindError", <<>>)]
    /\ UNCHANGED <<att, errors>>

\* resolveAvailablePort: server.listen({port, host}). A given port binds iff
\* nobody listens on it; port 0 gets any port nobody listens on.
ProbeListen(s) ==
    /\ pc[s] = "probe"
    /\ IF want[s] # 0
         THEN IF bound[want[s]] = 0
                THEN /\ bound' = [bound EXCEPT ![want[s]] = s]
                     /\ cur' = [cur EXCEPT ![s] = want[s]]
                     /\ pc' = [pc EXCEPT ![s] = "probing"]
                     /\ UNCHANGED <<att, errors, err>>
                ELSE /\ SpecificProbeFailed(s)
                     /\ UNCHANGED <<bound, cur>>
         ELSE IF \E p \in Ports : bound[p] = 0
                THEN /\ \E p \in Ports :
                          /\ bound[p] = 0
                          /\ bound' = [bound EXCEPT ![p] = s]
                          /\ cur' = [cur EXCEPT ![s] = p]
                     /\ pc' = [pc EXCEPT ![s] = "probing"]
                     /\ UNCHANGED <<att, errors, err>>
                ELSE /\ AttemptFailed(s, "EADDRINUSE")
                     /\ UNCHANGED <<bound, cur>>
    /\ UNCHANGED <<which, netReq, want, lease, lockedBy, procVars, tdVars>>

\* resolveAvailablePort: the listening callback reads server.address() and
\* closes the server; the port is free again and the promise resolves with
\* it. checkedPort equals the requested port whenever one was requested.
ProbeClose(s) ==
    /\ pc[s] = "probing"
    /\ bound' = [bound EXCEPT ![cur[s]] = 0]
    /\ IF want[s] # 0 /\ cur[s] # want[s]
         THEN /\ pc' = [pc EXCEPT ![s] = Rejected(s)]
              /\ err' = [err EXCEPT ![s] = TypedError("PortNotAvailable", <<>>)]
         ELSE /\ pc' = [pc EXCEPT ![s] = "lock"]
              /\ err' = err
    /\ UNCHANGED <<which, netReq, want, cur, att, errors, lease, lockedBy,
                   procVars, tdVars>>

LockFree_NoExclusion(p) == p \in Ports

\* proper-lockfile lock(path): mkdir of the lock directory, atomic across
\* processes; it fails when the lock is held (by anyone, the caller included).
LockFree(p) == lockedBy[p] = 0

\* What follows a lease inside its caller: getPorts goes on to the network
\* port, then start goes on to spawnSandbox; a bare call returns.
AfterLease(s) ==
    /\ att' = [att EXCEPT ![s] = 0]
    /\ errors' = [errors EXCEPT ![s] = <<>>]
    /\ cur' = [cur EXCEPT ![s] = 0]
    /\ netReq' = [netReq EXCEPT ![s] = 0]
    /\ IF which[s] = "rpc"
         THEN /\ pc' = [pc EXCEPT ![s] = "probe"]
              /\ which' = [which EXCEPT ![s] = "net"]
              /\ want' = [want EXCEPT ![s] = netReq[s]]
         ELSE /\ pc' = [pc EXCEPT ![s] = IF which[s] = "net" THEN "spawn" ELSE "holding"]
              /\ want' = [want EXCEPT ![s] = IF which[s] = "net" THEN 0 ELSE want[s]]
              /\ which' = which

\* createLockFileForPort, then lock(lockFilePath), in tryAcquireSpecificPort
\* and in acquireUnusedPort.
Lock(s) ==
    /\ pc[s] = "lock"
    /\ IF LockFree(cur[s])
         THEN /\ lockedBy' = [lockedBy EXCEPT ![cur[s]] = s]
              /\ lease' = [lease EXCEPT ![s][IF which[s] = "net" THEN "net" ELSE "rpc"] = cur[s]]
              /\ AfterLease(s)
              /\ err' = err
         ELSE /\ IF want[s] # 0
                   THEN /\ pc' = [pc EXCEPT ![s] = Rejected(s)]
                        /\ err' = [err EXCEPT ![s] = TypedError("LockFailed", <<>>)]
                        /\ UNCHANGED <<att, errors>>
                   ELSE AttemptFailed(s, "ELOCKED")
              /\ cur' = [cur EXCEPT ![s] = 0]
              /\ UNCHANGED <<lockedBy, lease, which, want, netReq>>
    /\ UNCHANGED <<bound, procVars, tdVars>>

Release_KeepsLock(s) ==
    /\ pc[s] = "holding"
    /\ lockedBy' = lockedBy
    /\ lease' = [lease EXCEPT ![s].rpc = 0]
    /\ pc' = [pc EXCEPT ![s] = "released"]
    /\ UNCHANGED <<which, netReq, want, cur, att, errors, err, bound, procVars,
                   tdVars>>

\* The holder of a bare lease releases it: unlock(lockFilePath).
Release(s) ==
    /\ pc[s] = "holding"
    /\ lockedBy' = [lockedBy EXCEPT ![lease[s].rpc] = 0]
    /\ lease' = [lease EXCEPT ![s].rpc = 0]
    /\ pc' = [pc EXCEPT ![s] = "released"]
    /\ UNCHANGED <<which, netReq, want, cur, att, errors, err, bound, procVars,
                   tdVars>>

\* Another program on the host (a long-running service): it is the listener
\* on p while bound[p] = Other.
Other == NumSessions + 1

OtherListen(p) ==
    /\ bound[p] = 0
    /\ bound' = [bound EXCEPT ![p] = Other]
    /\ UNCHANGED <<pc, acqVars, err, lockedBy, procVars, tdVars>>

----------------------------------------------------------------------------
\* waitUntilReady: attempts = timeoutSecs * 2.
Attempts == Times(timeoutSecs, 2)

RunFailed(s) ==
    /\ pc' = [pc EXCEPT ![s] = "startFailed"]
    /\ err' = [err EXCEPT ![s] = TypedError("RunFailed", <<>>)]

\* spawnSandbox: runWithArgsAndVersion spawns the node (or fails, and the
\* failure propagates), then waitUntilReady enters its loop.
Spawn(s, launched) ==
    /\ pc[s] = "spawn"
    /\ IF launched
         THEN /\ child' = [child EXCEPT ![s] = "running"]
              /\ IF Less(0, Attempts)
                   THEN /\ pc' = [pc EXCEPT ![s] = "poll"]
                        /\ err' = err
                   ELSE RunFailed(s)
         ELSE /\ pc' = [pc EXCEPT ![s] = "startFailed"]
              /\ err' = [err EXCEPT ![s] = TypedError("LaunchError", <<>>)]
              /\ child' = child
    /\ polls' = [polls EXCEPT ![s] = 0]
    /\ UNCHANGED <<acqVars, bound, lockedBy, killed, env, tdVars>>

\* The node serves on its two addresses.
Serving(s) == child[s] = "running" /\ bound[lease[s].rpc] = -s

\* The node binds --rpc-addr and --network-addr.
NodeBind(s) ==
    /\ child[s] = "running"
    /\ ~killed[s]
    /\ lease[s].rpc # lease[s].net
    /\ bound[lease[s].rpc] = 0
    /\ bound[lease[s].net] = 0
    /\ bound' = [bound EXCEPT ![lease[s].rpc] = -s, ![lease[s].net] = -s]
    /\ UNCHANGED <<pc, acqVars, err, lockedBy, procVars, tdVars>>

\* The node process exits (after the signal, or on its own) and the parent
\* emits 'exit': its sockets are gone, and a tearDown that waits on
\* once('exit') goes on to rm.
NodeExit(s) ==
    /\ child[s] = "running"
    /\ child' = [child EXCEPT ![s] = "exited"]
    /\ bound' = [p \in Ports |-> IF bound[p] = -s THEN 0 ELSE bound[p]]
    /\ pc' = [pc EXCEPT ![s] = IF pc[s] = "waitExit" THEN "rm" ELSE pc[s]]
    /\ UNCHANGED <<acqVars, err, lockedBy, killed, polls, env, tdVars>>

PollResponse_AnyStatus(s, ready) ==
    /\ pc[s] = "poll"
    /\ ready => Serving(s)
    /\ pc' = [pc EXCEPT ![s] = "live"]
    /\ polls' = [polls EXCEPT ![s] = 0]
    /\ UNCHANGED <<acqVars, err, bound, lockedBy, child, killed, env, tdVars>>

\* waitUntilReady: the response of got(`${rpcUrl}/status`). A 2xx status
\* returns (start then constructs the Sandbox); anything else sleeps.
PollResponse(s, ready) ==
    /\ pc[s] = "poll"
    /\ ready => Serving(s)
    /\ pc' = [pc EXCEPT ![s] = IF ready THEN "live" ELSE "sleep"]
    /\ polls' = [polls EXCEPT ![s] = IF ready THEN 0 ELSE polls[s]]
    /\ UNCHANGED <<acqVars, err, bound, lockedBy, child, killed, env, tdVars>>

SleepDone_OneMore(s) ==
    /\ pc[s] = "sleep"
    /\ IF Less(polls[s], Attempts)
         THEN /\ pc' = [pc EXCEPT ![s] = "poll"]
              /\ polls' = [polls EXCEPT ![s] = polls[s] + 1]
              /\ err' = err
         ELSE /\ RunFailed(s)
              /\ polls' = [polls EXCEPT ![s] = 0]
    /\ UNCHANGED <<acqVars, bound, lockedBy, child, killed, env, tdVars>>

\* waitUntilReady: the 500 ms timer fires, i++ and the loop test.
SleepDone(s) ==
    /\ pc[s] = "sleep"
    /\ IF Less(polls[s] + 1, Attempts)
         THEN /\ pc' = [pc EXCEPT ![s] = "poll"]
              /\ polls' = [polls EXCEPT ![s] = polls[s] + 1]
              /\ err' = err
         ELSE /\ RunFailed(s)
              /\ polls' = [polls EXCEPT ![s] = 0]
    /\ UNCHANGED <<acqVars, bound, lockedBy, child, killed, env, tdVars>>

----------------------------------------------------------------------------
\* The OS process a caller runs in (proper-lockfile keeps its registry of
\* held locks per process).
ProcOf(s) == (s + 1) \div 2

\* proper-lockfile unlock(path) can succeed only for a lock its own process
\* holds.
CanUnlock(s, p) == lockedBy[p] # 0 /\ ProcOf(lockedBy[p]) = ProcOf(s)

\* The working directory vanishes under a live session (removed from
\* outside).
DirVanish(s) ==
    /\ pc[s] = "live"
    /\ homeDir[s]
    /\ homeDir' = [homeDir EXCEPT ![s] = FALSE]
    /\ UNCHANGED <<pc, acqVars, err, bound, lockedBy, procVars, cleanup, unl,
                   tdErrors, rmRes, tdCalls, unlReason>>

\* tearDown up to its first await: childProcess.kill() (false when the
\* process is already gone), the error push, and the two unlock calls.
TearDown(s, c) ==
    /\ pc[s] = "live"
    /\ cleanup' = [cleanup EXCEPT ![s] = c]
    /\ killed' = [killed EXCEPT ![s] = child[s] = "running"]
    /\ tdErrors' = [tdErrors EXCEPT ![s] =
            IF child[s] = "running" THEN <<>> ELSE <<"KillFailed">>]
    /\ unl' = [unl EXCEPT ![s] = [rpc |-> "pending", net |-> "pending"]]
    /\ pc' = [pc EXCEPT ![s] = "unlocking"]
    /\ tdCalls' = [tdCalls EXCEPT ![s] = 1]
    /\ unlReason' = [unlReason EXCEPT ![s] = [rpc |-> "none", net |-> "none"]]
    /\ UNCHANGED <<acqVars, err, bound, lockedBy, child, polls, env, homeDir,
                   rmRes>>

\* tearDown called again on a session whose tearDown has ended, up to its
\* first await: kill() once more (false unless the process still runs), a
\* fresh errors array, and unlock on the same two lock paths.
TearDownAgain(s, c) ==
    /\ pc[s] = "tornDown"
    /\ tdCalls[s] < MaxTearDowns
    /\ tdCalls' = [tdCalls EXCEPT ![s] = tdCalls[s] + 1]
    /\ unlReason' = [unlReason EXCEPT ![s] = [rpc |-> "none", net |-> "none"]]
    /\ cleanup' = [cleanup EXCEPT ![s] = c]
    /\ killed' = [killed EXCEPT ![s] = child[s] = "running"]
    /\ tdErrors' = [tdErrors EXCEPT ![s] =
            IF child[s] = "running" THEN <<>> ELSE <<"KillFailed">>]
    /\ unl' = [unl EXCEPT ![s] = [rpc |-> "pending", net |-> "pending"]]
    /\ rmRes' = [rmRes EXCEPT ![s] = "none"]
    /\ err' = [err EXCEPT ![s] = NoError]
    /\ pc' = [pc EXCEPT ![s] = "unlocking"]
    /\ UNCHANGED <<acqVars, bound, lockedBy, child, polls, env, homeDir>>

Finish_FirstOnly(s, errs) ==
    /\ pc' = [pc EXCEPT ![s] = "tornDown"]
    /\ tdErrors' = [tdErrors EXCEPT ![s] = errs]
    /\ err' = [err EXCEPT ![s] =
            IF Len(errs) > 0 THEN TypedError("TearDownFailed", <<errs[1]>>) ELSE NoError]

\* tearDown's last lines: throw TearDownFailed when errors is not empty.
Finish(s, errs) ==
    /\ pc' = [pc EXCEPT ![s] = "tornDown"]
    /\ tdErrors' = [tdErrors EXCEPT ![s] = errs]
    /\ err' = [err EXCEPT ![s] =
            IF Len(errs) > 0 THEN TypedError("TearDownFailed", errs) ELSE NoError]

\* unlockResults.forEach: one entry per rejected unlock, in array order.
UnlockErrors(res) ==
    (IF res.rpc = "rejected" THEN <<"UnlockFailed">> ELSE <<>>)
        \o (IF res.net = "rejected" THEN <<"UnlockFailed">> ELSE <<>>)

\* What proper-lockfile's unlock rejects with: ENOTACQUIRED when the path is
\* not in the table of locks its process holds, else the error of the file
\* system call that failed (realpath of the lock file, rmdir of the lock
\* directory).
UnlockReasons(s, p) ==
    IF CanUnlock(s, p) THEN {"EFS"} ELSE {"ENOTACQUIRED", "EFS"}

\* The text of a message, as the sequence of its pieces.
\* join(tmpdir(), `near-sandbox-port-${port}.lock`)
LockFilePath(p) == <<"near-sandbox-port-", ToString(p), ".lock">>

\* String(result.reason): the ENOTACQUIRED error carries no path, a file
\* system error names the path it failed on.
ReasonText(r, p) ==
    IF r = "ENOTACQUIRED"
      THEN <<"Error: Lock is not acquired/owned by you">>
      ELSE <<"Error: ", "EFS", ": ">> \o LockFilePath(p)

\* "Failed to unlock port: " + result.reason, the message of the entry that
\* forEach pushes for the rejected unlock w (the entry "UnlockFailed" of
\* tdErrors).
UnlockMessage(s, w) ==
    <<"Failed to unlock port: ">> \o ReasonText(unlReason[s][w], lease[s][w])

UnlockSettle_FirstSettled(s, w, ok) ==
    LET p == lease[s][w]
        res == [unl[s] EXCEPT ![w] = IF ok THEN "fulfilled" ELSE "rejected"]
        errs == tdErrors[s] \o UnlockErrors(res)
    IN
    /\ pc[s] = "unlocking"
    /\ unl[s][w] = "pending"
    /\ ok => CanUnlock(s, p)
    /\ lockedBy' = IF ok THEN [lockedBy EXCEPT ![p] = 0] ELSE lockedBy
    /\ unl' = [unl EXCEPT ![s] = res]
    /\ IF ok THEN unlReason' = unlReason
       ELSE \E r \in UnlockReasons(s, p) :
               unlReason' = [unlReason EXCEPT ![s][w] = r]
    /\ IF cleanup[s]
         THEN /\ pc' = [pc EXCEPT ![s] = "waitExit"]
              /\ tdErrors' = [tdErrors EXCEPT ![s] = errs]
              /\ err' = err
         ELSE Finish(s, errs)
    /\ UNCHANGED <<acqVars, bound, procVars, cleanup, homeDir, rmRes, tdCalls>>

\* One of the two unlock promises settles. When it is the second,
\* Promise.allSettled resolves and tearDown continues in the same turn:
\* forEach, then either the once('exit') listener is registered (cleanup) or
\* the final test.
UnlockSettle(s, w, ok) ==
    LET p == lease[s][w]
        res == [unl[s] EXCEPT ![w] = IF ok THEN "fulfilled" ELSE "rejected"]
        errs == tdErrors[s] \o UnlockErrors(res)
    IN
    /\ pc[s] = "unlocking"
    /\ unl[s][w] = "pending"
    /\ ok => CanUnlock(s, p)
    /\ lockedBy' = IF ok THEN [lockedBy EXCEPT ![p] = 0] ELSE lockedBy
    /\ unl' = [unl EXCEPT ![s] = res]
    /\ IF ok THEN unlReason' = unlReason
       ELSE \E r \in UnlockReasons(s, p) :
               unlReason' = [unlReason EXCEPT ![s][w] = r]
    /\ IF "pending" \in {res.rpc, res.net}
         THEN UNCHANGED <<pc, tdErrors, err>>
         ELSE IF cleanup[s]
                THEN /\ pc' = [pc EXCEPT ![s] = "waitExit"]
                     /\ tdErrors' = [tdErrors EXCEPT ![s] = errs]
                     /\ err' = err
                ELSE Finish(s, errs)
    /\ UNCHANGED <<acqVars, bound, procVars, cleanup, homeDir, rmRes, tdCalls>>

Rm_NoForce(s, ok) ==
    /\ pc[s] = "rm"
    /\ ~ok => homeDir[s]
    /\ rmRes' = [rmRes EXCEPT ![s] =
            IF ~ok THEN "failed" ELSE IF homeDir[s] THEN "removed" ELSE "absent"]
    /\ homeDir' = [homeDir EXCEPT ![s] = IF ok THEN FALSE ELSE homeDir[s]]
    /\ Finish(s, IF ok /\ homeDir[s] THEN tdErrors[s]
                 ELSE Append(tdErrors[s], "RmFailed"))
    /\ UNCHANGED <<acqVars, bound, lockedBy, procVars, cleanup, unl, tdCalls,
                   unlReason>>

\* rm(homeDir, {recursive, force}) settles: force makes an absent directory
\* a success; any other failure is pushed by the catch handler. Then the
\* final test.
Rm(s, ok) ==
    /\ pc[s] = "rm"
    /\ ~ok => homeDir[s]
    /\ rmRes' = [rmRes EXCEPT ![s] =
            IF ~ok THEN "failed" ELSE IF homeDir[s] THEN "removed" ELSE "absent"]
    /\ homeDir' = [homeDir EXCEPT ![s] = IF ok THEN FALSE ELSE homeDir[s]]
    /\ Finish(s, IF ok THEN tdErrors[s] ELSE Append(tdErrors[s], "RmFailed"))
    /\ UNCHANGED <<acqVars, bound, lockedBy, procVars, cleanup, unl, tdCalls,
                   unlReason>>

----------------------------------------------------------------------------
\* Every step of a session but its start.
SessionStep(s) ==
    \/ ProbeListen(s)
    \/ ProbeClose(s)
    \/ Lock(s)
    \/ \E launched \in BOOLEAN : Spawn(s, launched)
    \/ NodeBind(s)
    \/ NodeExit(s)
    \/ \E ready \in BOOLEAN : PollResponse(s, ready)
    \/ SleepDone(s)
    \/ DirVanish(s)
    \/ \E c \in BOOLEAN : TearDown(s, c)
    \/ \E w \in {"rpc", "net"}, ok \in BOOLEAN : UnlockSettle(s, w, ok)
    \/ \E ok \in BOOLEAN : Rm(s, ok)

Next ==
    \E s \in Sessions :
        \/ \E rpc, net \in 0..NumPorts : Start(s, rpc, net)
        \/ SessionStep(s)

Spec == Init /\ [][Next]_vars

\* One caller running sessions one after the other on explicit RPC ports, as
\* the example test does (rpcPort: 3035, twice): a session is started once
\* the call that made or ended the previous one has settled.
Settled(s) == pc[s] \in {"tornDown", "startFailed"}

NextSeq ==
    \E s \in Sessions :
        \/ /\ s > 1 => Settled(s - 1)
           /\ \E rpc \in Ports, net \in 0..NumPorts : Start(s, rpc, net)
        \/ SessionStep(s)

SpecSeq == Init /\ [][NextSeq]_vars

\* The scheduling the runtime gives a tearDown call: each unlock and the rm
\* settle, and a process that was sent the signal exits.
TearDownFairness ==
    \A s \in Sessions :
        /\ WF_vars(\E w \in {"rpc", "net"}, ok \in BOOLEAN : UnlockSettle(s, w, ok))
        /\ WF_vars(\E ok \in BOOLEAN : Rm(s, ok))
        /\ WF_vars(killed[s] /\ NodeExit(s))

FairSpecSeq == SpecSeq /\ TearDownFairness

NextAcq ==
    \/ \E s \in Sessions :
        \/ \E p \in 0..NumPorts : CallAcquire(s, p)
        \/ ProbeListen(s)
        \/ ProbeClose(s)
        \/ Lock(s)
        \/ Release(s)
    \/ \E p \in Ports : OtherListen(p)

SpecAcq == Init /\ [][NextAcq]_vars

\* One start, under each value of the timeout setting.
NextReady ==
    \/ \E rpc, net \in Ports : Start(1, rpc, net)
    \/ SessionStep(1)

SpecReady == InitReady /\ [][NextReady]_vars

\* A session that its caller tears down, and tears down again once that
\* call has ended (as the finally block of the example test does when the
\* restart threw), next to callers of acquireOrLockPort in the same process.
NextTwice ==
    \/ \E rpc \in Ports, net \in 0..NumPorts : Start(1, rpc, net)
    \/ SessionStep(1)
    \/ \E c \in BOOLEAN : TearDownAgain(1, c)
    \/ \E s \in Sessions \ {1} :
        \/ \E p \in 0..NumPorts : CallAcquire(s, p)
        \/ ProbeListen(s)
        \/ ProbeClose(s)
        \/ Lock(s)
        \/ Release(s)

SpecTwice == Init /\ [][NextTwice]_vars

----------------------------------------------------------------------------
\* Session s was handed a lease on p and has not released it.
Holds(s, p) ==
    \E w \in {"rpc", "net"} : lease[s][w] = p /\ unl[s][w] # "fulfilled"

\* C1: over any interleaving of starts and tearDowns, a port handed to one
\* session by acquireOrLockPort stays locked by it, and is handed to no other
\* session, until the first session has released its lock.
C1_NoSharedPort ==
    \A s \in Sessions, p \in Ports :
        Holds(s, p) =>
            /\ lockedBy[p] = s
            /\ \A t \in Sessions \ {s} : ~Holds(t, p)

\* Two sessions are live at once, each on its own two ports.
C1_Witness ==
    \E s, t \in Sessions :
        /\ s # t
        /\ pc[s] = "live" /\ pc[t] = "live"
        /\ Cardinality({lease[s].rpc, lease[s].net, lease[t].rpc, lease[t].net}) = 4

\* The acquireOrLockPort call of s settles in this step.
AcquireSettles(s) ==
    /\ pc[s] \in {"probe", "probing", "lock"}
    /\ pc'[s] \notin {"probe", "probing", "lock"} \/ which'[s] # which[s]

LeaseHeldByOther(s, p) ==
    \E t \in Sessions \ {s} : lockedBy[p] = t /\ p \in {lease[t].rpc, lease[t].net}

\* C2: while another session holds the lease on p, an explicit
\* acquireOrLockPort(p) never succeeds and fails with PortNotAvailable or
\* LockFailed, and with no other error.
C2_HeldPortFailsTyped ==
    [][\A s \in Sessions :
          (want[s] # 0 /\ LeaseHeldByOther(s, want[s]) /\ AcquireSettles(s))
              => /\ pc'[s] = "startFailed"
                 /\ err'[s].kind \in {"PortNotAvailable", "LockFailed"}]_vars

C4_RestartOnSamePort ==
    \A s \in Sessions :
        (/\ s > 1
         /\ pc[s - 1] = "tornDown"
         /\ ~cleanup[s - 1]
         /\ err[s - 1].kind = "none"
         /\ which[s] = "rpc"
         /\ want[s] = lease[s - 1].rpc)
            => pc[s] # "startFailed"

\* C5: an explicit request whose bind probe fails is rejected with
\* PortNotAvailable, and no lock is taken.
C5_ProbeFailureIsPortNotAvailable ==
    [][\A s \in Sessions :
          (pc[s] = "probe" /\ want[s] # 0 /\ bound[want[s]] # 0 /\ pc'[s] # "probe")
              => /\ err'[s].kind = "PortNotAvailable"
                 /\ lockedBy' = lockedBy]_vars

\* C6: acquireUnusedPort makes at most MAX_ATTEMPTS attempts, one recorded
\* message per failed attempt; a lease it returns is locked by the caller;
\* and it fails only with PortAcquisitionFailed, after MAX_ATTEMPTS failed
\* attempts, carrying the MAX_ATTEMPTS messages numbered in attempt order.
C6_EphemeralAcquisition ==
    \A s \in Sessions :
        /\ att[s] < MAX_ATTEMPTS
        /\ Len(errors[s]) = att[s]
        /\ (pc[s] = "holding" /\ want[s] = 0) => lockedBy[lease[s].rpc] = s
        /\ err[s].kind = "PortAcquisitionFailed" => want[s] = 0
        /\ (pc[s] = "callFailed" /\ want[s] = 0) =>
              /\ err[s].kind = "PortAcquisitionFailed"
              /\ Len(err[s].cause) = MAX_ATTEMPTS
              /\ \A i \in 1..MAX_ATTEMPTS :
                    /\ err[s].cause[i][1] = i
                    /\ err[s].cause[i][2] \in {"ELOCKED", "EADDRINUSE"}

\* An ephemeral acquisition has failed after lock failures and probe failures.
C6_Witness ==
    \E s \in Sessions :
        /\ pc[s] = "callFailed"
        /\ want[s] = 0
        /\ err[s].kind = "PortAcquisitionFailed"
        /\ err[s].cause[1][2] = "ELOCKED"
        /\ err[s].cause[MAX_ATTEMPTS][2] = "EADDRINUSE"

\* The failures of the steps of the tearDown of s, in step order.
StepFailures(s) ==
    (IF killed[s] THEN <<>> ELSE <<"KillFailed">>)
        \o (IF unl[s].rpc = "rejected" THEN <<"UnlockFailed">> ELSE <<>>)
        \o (IF unl[s].net = "rejected" THEN <<"UnlockFailed">> ELSE <<>>)
        \o (IF rmRes[s] = "failed" THEN <<"RmFailed">> ELSE <<>>)

C8_EveryStepAttempted ==
    \A s \in Sessions :
        (pc[s] = "unlocking") ~>
            (/\ unl[s].rpc \in {"fulfilled", "rejected"}
             /\ unl[s].net \in {"fulfilled", "rejected"}
             /\ cleanup[s] => rmRes[s] # "none")

\* C9: every tearDown call completes (returns or throws TearDownFailed).
C9_TearDownCompletes ==
    \A s \in Sessions : (pc[s] = "unlocking") ~> (pc[s] = "tornDown")

Starting(s) == pc[s] \in {"probe", "probing", "lock", "spawn", "poll", "sleep"}

\* C11: start returns a session only when its node, spawned on the two
\* leased ports, answered a readiness poll with 2xx, and the session holds
\* the locks of both ports; a failure of acquisition, launcher or polling
\* ends the start with that error, nothing is retried and no session is
\* returned.
C11_FullyStartedOrNone ==
    /\ [](\A s \in Sessions :
            pc[s] = "live" =>
                /\ lease[s].rpc # 0 /\ lease[s].net # 0
                /\ lockedBy[lease[s].rpc] = s /\ lockedBy[lease[s].net] = s
                /\ child[s] # "none")
    /\ [][\A s \in Sessions :
            /\ (pc[s] # "live" /\ pc'[s] = "live") =>
                  /\ pc[s] = "poll"
                  /\ child[s] = "running"
                  /\ bound[lease[s].rpc] = -s /\ bound[lease[s].net] = -s
            /\ (child[s] = "none" /\ child'[s] # "none") => pc[s] = "spawn"
            /\ (Starting(s) /\ ~Starting(s)') =>
                  \/ pc'[s] = "live" /\ err'[s] = NoError
                  \/ /\ pc'[s] = "startFailed"
                     /\ err'[s].kind \in
                          (IF pc[s] = "spawn" THEN {"LaunchError", "RunFailed"}
                           ELSE IF pc[s] = "sleep" THEN {"RunFailed"}
                           ELSE {"BindError", "PortNotAvailable", "LockFailed",
                                 "PortAcquisitionFailed"})
            /\ pc[s] = "startFailed" => (pc'[s] = "startFailed" /\ err'[s] = err[s])]_vars

\* One start has returned a session and another has failed in the launcher.
C11_Witness ==
    \E s, t \in Sessions :
        /\ pc[s] = "live" /\ child[s] = "running"
        /\ pc[t] = "startFailed" /\ err[t].kind = "LaunchError"

\* The setting is a number of seconds (not NaN, not negative).
NumericTimeout == ~timeoutSecs.nan /\ timeoutSecs.n >= 0

\* C12: waitUntilReady issues at most timeoutSecs * 2 polls and a wait comes
\* between two polls; a poll ends the wait only by returning on 2xx, after
\* which no poll is issued; any other outcome goes on to the wait; and
\* RunFailed is thrown exactly when timeoutSecs * 2 polls were issued and
\* none returned.
C12_BoundedPolling ==
    /\ [](\A s \in Sessions :
            pc[s] \in {"poll", "sleep"} => Less(polls[s], Attempts))
    /\ [][\A s \in Sessions :
            /\ (pc[s] # "poll" /\ pc'[s] = "poll") =>
                  \/ pc[s] = "spawn" /\ polls'[s] = 0
                  \/ pc[s] = "sleep" /\ polls'[s] = polls[s] + 1
            /\ (pc[s] = "poll" /\ pc'[s] # "poll") =>
                  /\ pc'[s] \in {"live", "sleep"}
                  /\ pc'[s] = "sleep" => polls'[s] = polls[s]
                  /\ err'[s] = NoError
            /\ pc[s] \in {"live", "unlocking", "waitExit", "rm", "tornDown",
                           "startFailed"} => pc'[s] \notin {"poll", "sleep"}
            /\ (pc[s] # "startFailed" /\ pc'[s] = "startFailed"
                    /\ err'[s].kind = "RunFailed" /\ NumericTimeout) =>
                  \/ pc[s] = "sleep" /\ polls[s] + 1 = timeoutSecs.n * 2
                  \/ pc[s] = "spawn" /\ timeoutSecs.n * 2 = 0
            /\ (pc[s] = "sleep" /\ pc'[s] # "sleep" /\ NumericTimeout
                    /\ polls[s] + 1 = timeoutSecs.n * 2) =>
                  pc'[s] = "startFailed" /\ err'[s].kind = "RunFailed"]_vars

\* Under the default setting the wait after the 20th poll is running.
C12_Witness ==
    \E s \in Sessions :
        /\ ~env.set
        /\ pc[s] = "sleep"
        /\ polls[s] + 1 = 20

\* No character of the string is a digit / the string is a decimal numeral.
NoDigit(str) == \A i \in 1..Len(str) : ~IsDigit(str[i])

Numeral(str) == str # <<>> /\ \A i \in 1..Len(str) : IsDigit(str[i])

\* C13: the readiness wait gives up after 20 polls when the setting is unset
\* or holds no number, and after 2 * n polls when it holds the number n.
C13_DefaultBudget ==
    [][\A s \in Sessions :
          (pc[s] # "startFailed" /\ pc'[s] = "startFailed"
              /\ err'[s].kind = "RunFailed") =>
            LET issued == IF pc[s] = "sleep" THEN polls[s] + 1 ELSE 0 IN
            /\ (~env.set \/ NoDigit(env.val)) => issued = 20
            /\ (env.set /\ Numeral(env.val)) =>
                  issued = 2 * DigitsValue(env.val, 0)]_vars

\* getPorts(p, p): the RPC call has leased p and the network call asks for p.
SamePortTwice(s) ==
    which[s] = "net" /\ want[s] # 0 /\ want[s] = lease[s].rpc

\* C14 as stated: getPorts called with one explicit port for both addresses
\* is not rejected.
C14_SamePortAccepted ==
    \A s \in Sessions : SamePortTwice(s) => pc[s] # "startFailed"

\* C14, amended: getPorts never returns two addresses on one port; called
\* with one explicit port p for both, the call for the network address
\* fails, with LockFailed at the lock the RPC call took, or with the probe's
\* bind error when somebody listens on p, and the RPC lock stays held.
C14_SamePortRejected ==
    /\ [](\A s \in Sessions :
            (lease[s].rpc # 0 /\ lease[s].net # 0) => lease[s].rpc # lease[s].net)
    /\ [][\A s \in Sessions :
            (SamePortTwice(s) /\ Starting(s) /\ pc'[s] \notin {"probe", "probing", "lock"}) =>
                /\ pc'[s] = "startFailed"
                /\ lockedBy'[want[s]] = s
                /\ \/ pc[s] = "lock" /\ err'[s].kind = "LockFailed"
                   \/ /\ pc[s] = "probe"
                      /\ err'[s].kind = "BindError"
                      /\ bound[want[s]] # 0]_vars

\* A start that asked for one port twice has failed at the second lock.
C14_Witness ==
    \E s \in Sessions :
        /\ SamePortTwice(s)
        /\ pc[s] = "startFailed"
        /\ err[s].kind = "LockFailed"
        /\ lockedBy[want[s]] = s

\* C15: while the node process of a session runs, the session holds the
\* locks of both its ports; tearDown frees no lock of a running node.
C15_LockHeldUntilExit ==
    \A s \in Sessions :
        child[s] = "running" =>
            /\ lockedBy[lease[s].rpc] = s
            /\ lockedBy[lease[s].net] = s

\* C16: the lock a caller acquired is released only by that caller, by the
\* release of a bare lease or by a tearDown of the session that holds it: a
\* tearDown called again on a session whose locks are released releases no
\* lock that another caller has acquired since.
C16_ReleasedOnce ==
    [][\A p \in Ports :
          (lockedBy[p] # 0 /\ lockedBy'[p] = 0) =>
            LET t == lockedBy[p] IN
            \/ pc[t] = "holding" /\ pc'[t] = "released"
            \/ pc[t] = "unlocking" /\ unl'[t] # unl[t]]_vars

\* C17: with cleanup, when the node exits after the kill signal while the
\* locks are still being released, tearDown goes on to the removal of the
\* directory.
C17_EarlyExitNotMissed ==
    \A s \in Sessions :
        (pc[s] = "unlocking" /\ cleanup[s] /\ killed[s] /\ child[s] = "exited")
            ~> (rmRes[s] # "none")

\* Both unlock promises of the tearDown of s have settled.
UnlocksSettled(s) ==
    /\ unl[s].rpc \in {"fulfilled", "rejected"}
    /\ unl[s].net \in {"fulfilled", "rejected"}

\* C18: in a start the RPC lock is held while the network port is acquired,
\* both locks are held when the node is spawned, and the node is spawned
\* before the first poll; in tearDown the kill comes before any release, and
\* both releases have settled before the wait for the exit and the removal.
C18_StepOrder ==
    /\ [](\A s \in Sessions :
            /\ (Starting(s) /\ which[s] = "net") =>
                  lease[s].rpc # 0 /\ lockedBy[lease[s].rpc] = s
            /\ pc[s] \in {"spawn", "poll", "sleep"} =>
                  /\ lease[s].rpc # 0 /\ lockedBy[lease[s].rpc] = s
                  /\ lease[s].net # 0 /\ lockedBy[lease[s].net] = s
            /\ pc[s] \in {"idle", "probe", "probing", "lock", "spawn"} =>
                  child[s] = "none"
            /\ pc[s] \in {"poll", "sleep"} => child[s] # "none"
            /\ "none" \notin {unl[s].rpc, unl[s].net} =>
                  \/ killed[s]
                  \/ Len(tdErrors[s]) > 0 /\ tdErrors[s][1] = "KillFailed"
            /\ (pc[s] \in {"waitExit", "rm"} \/ rmRes[s] # "none") =>
                  UnlocksSettled(s))
    /\ [][\A s \in Sessions :
            /\ (child[s] = "none" /\ child'[s] # "none") =>
                  /\ pc[s] = "spawn"
                  /\ lockedBy[lease[s].rpc] = s /\ lockedBy[lease[s].net] = s
            /\ \A p \in Ports :
                  (lockedBy[p] = s /\ lockedBy'[p] # s) =>
                      /\ pc[s] = "unlocking"
                      /\ killed[s] \/ tdErrors[s] = <<"KillFailed">>]_vars

\* A tearDown with cleanup has run all its steps: kill, both releases, the
\* exit of the node, the removal.
C18_Witness ==
    \E s \in Sessions :
        /\ pc[s] = "tornDown"
        /\ cleanup[s] /\ killed[s]
        /\ unl[s].rpc = "fulfilled" /\ unl[s].net = "fulfilled"
        /\ child[s] = "exited"
        /\ rmRes[s] = "removed"

\* C19: when a start has failed, no lock that it acquired is still held.
C19_FailedStartReleasesLocks ==
    \A s \in Sessions :
        pc[s] = "startFailed" => \A p \in Ports : lockedBy[p] # s

\* C20: when a start has failed with RunFailed, the node it spawned is not
\* running.
C20_NoProcessAfterRunFailed ==
    \A s \in Sessions :
        (pc[s] = "startFailed" /\ err[s].kind = "RunFailed") => child[s] # "running"

\* The text names the port p.
NamesPort(msg, p) == \E i \in 1..Len(msg) : msg[i] = ToString(p)

\* The entries of the error set of the tearDown of s that are unlock
\* failures.
UnlockEntryCount(s) ==
    Cardinality({i \in 1..Len(tdErrors[s]) : tdErrors[s][i] = "UnlockFailed"})

\* C21: once both releases of a tearDown have settled, the error set holds
\* one entry for each release that failed, and the entry of a failed release
\* names the port it concerns.
C21_UnlockFailuresTagged ==
    \A s \in Sessions :
        pc[s] \in {"waitExit", "rm", "tornDown"} =>
            /\ UnlockEntryCount(s) =
                  Cardinality({w \in {"rpc", "net"} : unl[s][w] = "rejected"})
            /\ \A w \in {"rpc", "net"} :
                  unl[s][w] = "rejected" => NamesPort(UnlockMessage(s, w), lease[s][w])
====
